---- MODULE Spec2Model ----
(***************************************************************************)
(* QuantumRiskValidator (src/risk/QuantumRiskValidator.py): the QUBO model *)
(* builder, the energy function, the parallel simulated-annealing search   *)
(* and the order validation built on them.                                 *)
(*                                                                         *)
(* Numbers.  The code computes in float64.  A float is modelled as a       *)
(* record: a finite value (an exact integer, fixed point), NaN, +inf or    *)
(* -inf, with the IEEE-754 rules for +, -, * and <.  Order fields are in   *)
(* units, risk metrics in tenths, matrix entries, energies and the risk    *)
(* threshold in hundredths, so every coefficient of build_qubo_model is an *)
(* exact integer (-2.3 is -230 hundredths per unit of expected_profit).    *)
(***************************************************************************)
EXTENDS Integers, Sequences, FiniteSets, TLC

----------------------------------------------------------------------------
\* Bounds of the model.

\* Longest input sequence handed to batch_validate_orders.
MaxBatch == 2

\* Iterations of one annealing run when validate_order calls the search with
\* its default (the code's default is 1000, line 12).
DefaultIterations == 1

\* Largest number of variables of the matrices _calculate_energy is evaluated
\* on directly.
MaxVars == 2

\* Number of consecutive calls of parallel_simulated_annealing made with the
\* same arguments and the same random draws by a direct caller.
MaxCalls == 2

\* multiprocessing.cpu_count() of the machine.
CpuCount == 2

----------------------------------------------------------------------------
\* float64

F(n) == [k |-> "fin", v |-> n]
NaN  == [k |-> "nan", v |-> 0]
PInf == [k |-> "inf", v |-> 1]
NInf == [k |-> "inf", v |-> -1]

IsFinite(x) == x.k = "fin"

Sign(n) == IF n > 0 THEN 1 ELSE IF n < 0 THEN -1 ELSE 0

\* a + b
FAdd(a, b) ==
    IF a.k = "nan" \/ b.k = "nan" THEN NaN
    ELSE IF a.k = "inf" /\ b.k = "inf" THEN (IF a.v = b.v THEN a ELSE NaN)
    ELSE IF a.k = "inf" THEN a
    ELSE IF b.k = "inf" THEN b
    ELSE F(a.v + b.v)

\* -a
FNeg(a) == IF a.k = "nan" THEN NaN ELSE [k |-> a.k, v |-> 0 - a.v]

\* a - b
FSub(a, b) == FAdd(a, FNeg(b))

\* a * b  (0 * inf and anything * NaN are NaN)
FMul(a, b) ==
    IF a.k = "nan" \/ b.k = "nan" THEN NaN
    ELSE IF a.k = "inf" \/ b.k = "inf"
         THEN (IF Sign(a.v) * Sign(b.v) = 0 THEN NaN
               ELSE [k |-> "inf", v |-> Sign(a.v) * Sign(b.v)])
    ELSE F(a.v * b.v)

\* a < b  (every comparison with NaN is False)
FLt(a, b) ==
    IF a.k = "nan" \/ b.k = "nan" THEN FALSE
    ELSE IF a.k = "inf" THEN a.v < 0 /\ b # a
    ELSE IF b.k = "inf" THEN b.v > 0
    ELSE a.v < b.v

----------------------------------------------------------------------------
\* Vectors and matrices are indexed from 0, as in the code.

\* len(x)
Length(x) == Cardinality(DOMAIN x)

\* np.zeros(num_vars, dtype=np.int32)
Zeros(num_vars) == [i \in 0..(num_vars - 1) |-> 0]

\* The values np.random.randint(0, 2, num_vars) can return.
BinaryVectors(num_vars) == [0..(num_vars - 1) -> {0, 1}]

\* np.zeros((num_vars, num_vars))
ZeroMatrix(num_vars) ==
    [i \in 0..(num_vars - 1) |-> [j \in 0..(num_vars - 1) |-> F(0)]]

\* qubo[i, j] = x
SetEntry(qubo, i, j, x) == [qubo EXCEPT ![i][j] = x]

----------------------------------------------------------------------------
\* _calculate_energy, lines 55-65

RECURSIVE EnergyInnerTransposed(_, _, _, _, _)
\* energy += qubo[j, i] * state[i] * state[j]
EnergyInnerTransposed(state, qubo, i, j, energy) ==
    IF j >= Length(state) THEN energy
    ELSE CHOOSE out \in
             {EnergyInnerTransposed(state, qubo, i, j + 1, FAdd(e, term))
                 : e \in {energy},
                   term \in {FMul(FMul(qubo[j][i], F(state[i])), F(state[j]))}} : TRUE

RECURSIVE EnergyInner(_, _, _, _, _)
\* for j in range(i+1, num_vars): energy += qubo[i, j] * state[i] * state[j]
\* (e is the value energy holds when the statement runs, term the value
\* added to it.)
EnergyInner(state, qubo, i, j, energy) ==
    IF j >= Length(state) THEN energy
    ELSE CHOOSE out \in
             {EnergyInner(state, qubo, i, j + 1, FAdd(e, term))
                 : e \in {energy},
                   term \in {FMul(FMul(qubo[i][j], F(state[i])), F(state[j]))}} : TRUE

RECURSIVE EnergyOuter(_, _, _, _)
\* for i in range(num_vars): energy += qubo[i, i] * state[i]; inner loop
EnergyOuter(state, qubo, i, energy) ==
    IF i >= Length(state) THEN energy
    ELSE CHOOSE out \in
             {EnergyOuter(state, qubo, i + 1, inner)
                 : inner \in {EnergyInner(state, qubo, i, i + 1, FAdd(e, term))
                                  : e \in {energy},
                                    term \in {FMul(qubo[i][i], F(state[i]))}}} : TRUE

_calculate_energy(state, qubo) == EnergyOuter(state, qubo, 0, F(0))

----------------------------------------------------------------------------
\* build_qubo_model, lines 67-95

\* The keys build_qubo_model reads from the order (lines 70 and 85).
OrderKeys == {"size", "expected_profit"}

\* order[...] raises KeyError when the key is missing.
RaisesKeyError(order) == ~(OrderKeys \subseteq DOMAIN order)

\* build_qubo_model with every interaction term also written below the
\* diagonal (qubo[1, 0] = qubo[0, 1], ...).
build_qubo_model_symmetric(order, market_data, risk_metrics) ==
    LET position_size == order.size
        volatility == risk_metrics.volatility
        liquidity == risk_metrics.liquidity
        correlation == risk_metrics.correlation
        margin_requirement == risk_metrics.margin_requirement
        q0 == ZeroMatrix(4)
        q1 == SetEntry(q0, 0, 0, FMul(F(-230), order.expected_profit))
        q2 == SetEntry(q1, 1, 1, FMul(FMul(F(18), position_size), volatility))
        q3 == SetEntry(q2, 2, 2, FMul(F(5), liquidity))
        q4 == SetEntry(q3, 3, 3, FMul(F(12), FSub(F(10), margin_requirement)))
        q5 == SetEntry(SetEntry(q4, 0, 1, FMul(F(5), volatility)),
                       1, 0, FMul(F(5), volatility))
        q6 == SetEntry(SetEntry(q5, 0, 2, FMul(F(3), liquidity)),
                       2, 0, FMul(F(3), liquidity))
        q7 == SetEntry(SetEntry(q6, 0, 3, FMul(F(2), correlation)),
                       3, 0, FMul(F(2), correlation))
    IN  q7

\* Lines 67-95.  Values are fixed point: order fields in units, risk metrics
\* in tenths, matrix entries in hundredths.
build_qubo_model(order, market_data, risk_metrics) ==
    LET position_size == order.size
        volatility == risk_metrics.volatility
        liquidity == risk_metrics.liquidity
        correlation == risk_metrics.correlation
        margin_requirement == risk_metrics.margin_requirement
        q0 == ZeroMatrix(4)
        q1 == SetEntry(q0, 0, 0, FMul(F(-230), order.expected_profit))
        q2 == SetEntry(q1, 1, 1, FMul(FMul(F(18), position_size), volatility))
        q3 == SetEntry(q2, 2, 2, FMul(F(5), liquidity))
        q4 == SetEntry(q3, 3, 3, FMul(F(12), FSub(F(10), margin_requirement)))
        q5 == SetEntry(q4, 0, 1, FMul(F(5), volatility))
        q6 == SetEntry(q5, 0, 2, FMul(F(3), liquidity))
        q7 == SetEntry(q6, 0, 3, FMul(F(2), correlation))
    IN  q7

----------------------------------------------------------------------------
\* The state of the program.

VARIABLES
    validator,          \* self: risk_threshold, num_threads (lines 8-9)
    call,               \* the call under way and its arguments
    bpc,                \* where the caller stands: "ready", "searching",
                        \* "returned" or "raised"
    idx,                \* number of orders validated (searches returned) so far
    results,            \* results list of batch_validate_orders (line 118)
    validated,          \* the orders validate_order has built a matrix for
    rets,               \* what each finished search returned (line 53), and the
                        \* matrix it searched
    error,              \* the exception that left the call, or "none"
    qubo,               \* the matrix under search
    best_energy,        \* line 15, shared by the runs of the prange loop
    best_state,         \* line 16, shared by the runs of the prange loop
    rpc,                \* per run: "start", "loop", "write_energy",
                        \* "write_state", "done" or "raised"
    current_state,      \* per run, line 20
    current_energy,     \* per run, line 21
    local_best_state,   \* per run, line 22
    local_best_energy,  \* per run, line 23
    local_temp,         \* per run, line 24, a fraction <<numerator, denominator>>
    iter,               \* per run: iterations of the inner loop done
    draws,              \* per run: the values np.random has handed to it in
                        \* a direct search
    seed                \* per run: the draws np.random is pinned to, once a
                        \* direct caller repeats its search

vars == <<validator, call, bpc, idx, results, validated, rets, error, qubo, best_energy,
          best_state, rpc, current_state, current_energy, local_best_state,
          local_best_energy, local_temp, iter, draws, seed>>

runVars == <<rpc, current_state, current_energy, local_best_state,
             local_best_energy, local_temp, iter, draws>>

----------------------------------------------------------------------------
\* Inputs.

\* Defaults of parallel_simulated_annealing (line 12): temp=100.0 and
\* cooling_rate=0.99 (99/100).
DefaultTemp == 100
DefaultCoolingRate == <<99, 100>>

\* The default risk_threshold=-1.0 (line 7), in hundredths.
DefaultRiskThreshold == -100

OrderGood == [size |-> F(1), expected_profit |-> F(1)]
OrderInfProfit == [size |-> F(1), expected_profit |-> PInf]
OrderNoProfit == [size |-> F(1)]
Orders == {OrderGood, OrderInfProfit, OrderNoProfit}

RiskNormal == [volatility |-> F(1), liquidity |-> F(2), correlation |-> F(3),
               margin_requirement |-> F(5)]
RiskNaN == [RiskNormal EXCEPT !.volatility = NaN]
RiskMetrics == {RiskNormal, RiskNaN}

MarketData == {"md"}

RECURSIVE SeqsUpTo(_, _)
\* The sequences over S of length at most n.
SeqsUpTo(S, n) ==
    IF n = 0 THEN {<<>>}
    ELSE LET shorter == SeqsUpTo(S, n - 1)
         IN  shorter \cup {Append(s, x) : s \in shorter, x \in S}

\* batch_validate_orders(orders, market_data, risk_metrics)
BatchCalls ==
    [op : {"batch"}, orders : SeqsUpTo(Orders, MaxBatch),
     market_data : MarketData, risk_metrics : RiskMetrics]

\* A 2-variable matrix: energies 0, -1, 0, -1 for the states 00, 10, 01, 11.
\* Its lower-triangle entry is not zero.
SmallQubo ==
    [i \in 0..1 |-> [j \in 0..1 |->
        IF i = 0 /\ j = 0 THEN F(-1) ELSE IF i = 1 /\ j = 0 THEN F(7) ELSE F(0)]]

\* parallel_simulated_annealing(qubo, num_iterations, temp, cooling_rate),
\* called directly.
SearchCalls ==
    [op : {"search"}, qubo : {SmallQubo}, num_iterations : {-1, 0, 1},
     temp : {<<DefaultTemp, 1>>, <<0, 1>>},
     cooling_rate : {DefaultCoolingRate, <<0, 1>>, <<2, 1>>}]

\* A threshold some state of an OrderGood matrix under RiskNormal has exactly
\* as its energy: -2.07 is the energy of 1100 (-2.30 + 0.18 + 0.05).
BoundaryRiskThreshold == -207

\* QuantumRiskValidator(risk_threshold, num_threads); num_threads 0 stands
\* for None (both are falsy at line 9).
Validators ==
    [risk_threshold : {F(DefaultRiskThreshold), F(BoundaryRiskThreshold)},
     num_threads : {-1, 0, 1}]

\* The validator/call pairs explored.  Several concurrent runs are explored on
\* direct searches over the 2-variable matrix, which never read
\* risk_threshold; batches are explored on validators whose search has at
\* most one run and whose threshold some energy can equal.
Scenarios ==
    {sc \in [validator : Validators, call : BatchCalls \cup SearchCalls] :
        IF sc.call.op = "batch"
        THEN /\ sc.validator.num_threads # 0
             /\ sc.validator.risk_threshold = F(BoundaryRiskThreshold)
        ELSE sc.validator.risk_threshold = F(DefaultRiskThreshold)}

----------------------------------------------------------------------------
\* __init__, lines 7-9

\* self.num_threads = num_threads if num_threads else multiprocessing.cpu_count()
NumThreadsOf(v) == IF v.num_threads # 0 THEN v.num_threads ELSE CpuCount

num_threads == NumThreadsOf(validator)

\* The iterations of prange(self.num_threads), one per run.
RunIds == 0..(num_threads - 1)

\* Arguments of the search under way: validate_order passes only the matrix
\* (line 105), so the defaults of line 12 apply.
num_iterations ==
    IF call.op = "search" THEN call.num_iterations ELSE DefaultIterations
temp == IF call.op = "search" THEN call.temp ELSE <<DefaultTemp, 1>>
cooling_rate == IF call.op = "search" THEN call.cooling_rate ELSE DefaultCoolingRate

NoDraws == [init |-> <<>>, steps |-> <<>>]

Init ==
    /\ \E sc \in Scenarios :
          /\ validator = sc.validator
          /\ call = sc.call
          /\ LET ids == 0..(NumThreadsOf(sc.validator) - 1)
             IN  /\ rpc = [r \in ids |-> "idle"]
                 /\ current_state = [r \in ids |-> <<>>]
                 /\ current_energy = [r \in ids |-> F(0)]
                 /\ local_best_state = [r \in ids |-> <<>>]
                 /\ local_best_energy = [r \in ids |-> F(0)]
                 /\ local_temp = [r \in ids |-> <<0, 1>>]
                 /\ iter = [r \in ids |-> 0]
                 /\ draws = [r \in ids |-> NoDraws]
                 /\ seed = [r \in ids |-> NoDraws]
    /\ bpc = "ready"
    /\ idx = 0
    /\ results = <<>>
    /\ validated = <<>>
    /\ rets = <<>>
    /\ error = "none"
    /\ qubo = <<>>
    /\ best_energy = PInf
    /\ best_state = <<>>

----------------------------------------------------------------------------
\* np.random

\* np.random is unseeded in the code: a draw can be any value of its range.
\* A direct caller that repeats its search pins the draws of every run to the
\* sequences the first call received (seed); a caller that seeds np.random
\* before each validate_order pins the draws of every call.
Pinned == (call.op = "search" /\ idx > 0) \/ call.op = "validate"

\* The initial state np.random.randint(0, 2, num_vars) hands to run r (line 20).
InitDraws(r) ==
    IF Pinned THEN {seed[r].init} ELSE BinaryVectors(Length(qubo))

\* The index np.random.randint(0, num_vars) and, when the move does not lower
\* the energy, the outcome of np.random.rand() handed to run r in its next
\* iteration (lines 29 and 36).  rand() is "low" when it is below every
\* positive probability and "high" when it is at least every probability
\* below 1; "none" when rand() is not called.
StepDraws(r, needsRand) ==
    IF Pinned THEN {seed[r].steps[iter[r] + 1]}
    ELSE [var_idx : 0..(Length(qubo) - 1),
          rand : IF needsRand THEN {"low", "high"} ELSE {"none"}]

\* The draws of a run once np.random has handed it one more value.  Only a
\* direct caller, who repeats its search, keeps them.
Drawn(sofar, kind, value) ==
    IF call.op # "search" THEN sofar
    ELSE IF kind = "init" THEN [init |-> value, steps |-> <<>>]
    ELSE [sofar EXCEPT !.steps = Append(@, value)]

----------------------------------------------------------------------------
\* parallel_simulated_annealing, lines 12-53

\* new_state = current_state.copy(); new_state[var_idx] = 1
FlipToOne(state, var_idx) == [state EXCEPT ![var_idx] = 1]

\* new_state = current_state.copy(); new_state[var_idx] = 1 - new_state[var_idx]
Flip(state, var_idx) == [state EXCEPT ![var_idx] = 1 - @]

\* local_temp == 0.0
IsZero(t) == t[1] = 0

\* local_temp *= cooling_rate * cooling_rate
CoolTwice(t, rate) == <<t[1] * rate[1] * rate[1], t[2] * rate[2] * rate[2]>>

\* local_temp *= cooling_rate
Cool(t, rate) == <<t[1] * rate[1], t[2] * rate[2]>>

\* np.random.rand() < np.exp((current_energy - new_energy) / local_temp), for
\* local_temp other than 0: exp is NaN for a NaN difference, 0 for -inf, at
\* least 1 for an exponent >= 0 and strictly between 0 and 1 otherwise.
RandBelowExp(rand, cur, new, t) ==
    LET diff == FSub(cur, new)
        sgn == Sign(diff.v) * Sign(t[1]) * Sign(t[2])
    IN  IF diff.k = "nan" THEN FALSE
        ELSE IF sgn >= 0 THEN TRUE
        ELSE IF diff.k = "inf" THEN FALSE
        ELSE rand = "low"

\* The division at line 36 is reached with local_temp == 0.0: the function is
\* compiled by numba.jit, whose default error model raises ZeroDivisionError.
DividesByZero(cur, new, t) == ~FLt(new, cur) /\ IsZero(t)

\* Line 36: the move is accepted.
Accepts(rand, cur, new, t) == FLt(new, cur) \/ RandBelowExp(rand, cur, new, t)

\* current_state = new_state, without current_energy = new_energy
AcceptStateOnly(current, proposed) ==
    [state |-> proposed.state, energy |-> current.energy]

\* Lines 37-38: current_state = new_state; current_energy = new_energy.  The
\* (state, energy) pair the run holds after accepting the proposed pair.
AcceptMove(current, proposed) == proposed

\* if current_energy > local_best_energy:
Worsens(energy, best) == FLt(best, energy)

\* Line 41: the accepted state replaces the run's best.
Improves(energy, best) == FLt(energy, best)

\* for _ in prange(self.num_threads): lines 20-24 of run r.
RunInit(r) ==
    /\ bpc = "searching"
    /\ rpc[r] = "start"
    /\ \E s \in InitDraws(r) :
          /\ current_state' = [current_state EXCEPT ![r] = s]
          /\ current_energy' =
                 [current_energy EXCEPT ![r] = _calculate_energy(s, qubo)]
          /\ local_best_state' = [local_best_state EXCEPT ![r] = s]
          /\ local_best_energy' =
                 [local_best_energy EXCEPT ![r] = _calculate_energy(s, qubo)]
          /\ draws' = [draws EXCEPT ![r] = Drawn(@, "init", s)]
    /\ local_temp' = [local_temp EXCEPT ![r] = temp]
    /\ iter' = [iter EXCEPT ![r] = 0]
    /\ rpc' = [rpc EXCEPT ![r] = "loop"]
    /\ UNCHANGED <<validator, validated, call, bpc, idx, results, rets, error, qubo,
                   best_energy, best_state, seed>>

\* One iteration of the inner loop of run r, lines 26-46.
RunIterate(r) ==
    /\ bpc = "searching"
    /\ rpc[r] = "loop"
    /\ iter[r] < num_iterations
    /\ \E var_idx \in 0..(Length(qubo) - 1) :
        \E new_energy \in
                {_calculate_energy(Flip(current_state[r], var_idx), qubo)} :
          LET new_state == Flip(current_state[r], var_idx)
              needsRand == ~FLt(new_energy, current_energy[r])
          IN  \E d \in StepDraws(r, needsRand) :
                /\ d.var_idx = var_idx
                /\ draws' = [draws EXCEPT ![r] = Drawn(@, "step", d)]
                /\ IF DividesByZero(current_energy[r], new_energy, local_temp[r])
                   THEN /\ rpc' = [rpc EXCEPT ![r] = "raised"]
                        /\ UNCHANGED <<current_state, current_energy,
                                       local_best_state, local_best_energy,
                                       local_temp, iter>>
                   ELSE /\ IF Accepts(d.rand, current_energy[r], new_energy,
                                      local_temp[r])
                           THEN LET moved ==
                                        AcceptMove(
                                            [state |-> current_state[r],
                                             energy |-> current_energy[r]],
                                            [state |-> new_state,
                                             energy |-> new_energy])
                                IN
                                /\ current_state' =
                                       [current_state EXCEPT ![r] = moved.state]
                                /\ current_energy' =
                                       [current_energy EXCEPT ![r] = moved.energy]
                                /\ IF Improves(moved.energy, local_best_energy[r])
                                   THEN /\ local_best_state' =
                                               [local_best_state EXCEPT
                                                   ![r] = moved.state]
                                        /\ local_best_energy' =
                                               [local_best_energy EXCEPT
                                                   ![r] = moved.energy]
                                   ELSE UNCHANGED <<local_best_state,
                                                    local_best_energy>>
                           ELSE UNCHANGED <<current_state, current_energy,
                                            local_best_state, local_best_energy>>
                        /\ local_temp' =
                               [local_temp EXCEPT ![r] = Cool(@, cooling_rate)]
                        /\ iter' = [iter EXCEPT ![r] = @ + 1]
                        /\ UNCHANGED rpc
    /\ UNCHANGED <<validator, validated, call, bpc, idx, results, rets, error, qubo,
                   best_energy, best_state, seed>>

\* Line 49, run r: read the shared best_energy and compare.
RunCompare(r) ==
    /\ bpc = "searching"
    /\ rpc[r] = "loop"
    /\ ~(iter[r] < num_iterations)
    /\ rpc' = [rpc EXCEPT ![r] =
                  IF FLt(local_best_energy[r], best_energy)
                  THEN "write_energy" ELSE "done"]
    /\ UNCHANGED <<validator, validated, call, bpc, idx, results, rets, error, qubo,
                   best_energy, best_state, current_state, current_energy,
                   local_best_state, local_best_energy, local_temp, iter,
                   draws, seed>>

\* Line 50, run r: best_energy = local_best_energy
RunWriteEnergy(r) ==
    /\ bpc = "searching"
    /\ rpc[r] = "write_energy"
    /\ best_energy' = local_best_energy[r]
    /\ rpc' = [rpc EXCEPT ![r] = "write_state"]
    /\ UNCHANGED <<validator, validated, call, bpc, idx, results, rets, error, qubo,
                   best_state, current_state, current_energy,
                   local_best_state, local_best_energy, local_temp, iter,
                   draws, seed>>

\* Line 51, run r: best_state = local_best_state.copy()
RunWriteState(r) ==
    /\ bpc = "searching"
    /\ rpc[r] = "write_state"
    /\ best_state' = local_best_state[r]
    /\ rpc' = [rpc EXCEPT ![r] = "done"]
    /\ UNCHANGED <<validator, validated, call, bpc, idx, results, rets, error, qubo,
                   best_energy, current_state, current_energy,
                   local_best_state, local_best_energy, local_temp, iter,
                   draws, seed>>

\* Lines 14-19: the search starts on matrix q; its runs are handed out.
StartSearch(q) ==
    /\ qubo' = q
    /\ best_energy' = PInf
    /\ best_state' = Zeros(Length(q))
    /\ rpc' = [r \in RunIds |-> "start"]
    /\ current_state' = [r \in RunIds |-> <<>>]
    /\ current_energy' = [r \in RunIds |-> F(0)]
    /\ local_best_state' = [r \in RunIds |-> <<>>]
    /\ local_best_energy' = [r \in RunIds |-> F(0)]
    /\ local_temp' = [r \in RunIds |-> <<0, 1>>]
    /\ iter' = [r \in RunIds |-> 0]
    /\ draws' = [r \in RunIds |-> NoDraws]
    /\ bpc' = "searching"

\* Some run of the prange loop has ended.
SomeRunEnded == \E r \in RunIds : rpc[r] \in {"done", "raised"}

\* Every run of the prange loop has ended.
AllRunsEnded == \A r \in RunIds : rpc[r] \in {"done", "raised"}

SomeRunRaised == \E r \in RunIds : rpc[r] = "raised"

\* Line 53: return best_state, best_energy
SearchResult == [state |-> best_state, energy |-> best_energy, qubo |-> qubo]

----------------------------------------------------------------------------
\* validate_order, lines 97-114, and batch_validate_orders, lines 116-121

\* The order the loop of line 119 is at.
CurrentOrder == call.orders[idx + 1]

\* best_energy <= self.risk_threshold
IsApprovedOrEqual(energy, risk_threshold) ==
    FLt(energy, risk_threshold)
        \/ (energy.k # "nan" /\ energy = risk_threshold)

\* Line 108: is_approved = best_energy < self.risk_threshold
IsApproved(energy, risk_threshold) == FLt(energy, risk_threshold)

\* results.insert(0, ...)
PrependResult(list, is_approved) == <<is_approved>> \o list

\* Line 120: results.append(...)
AppendResult(list, is_approved) == Append(list, is_approved)

\* Lines 119-120 and 102-105: the loop takes the next order, validate_order
\* builds its matrix and starts the search.
ValidateOrderStart ==
    /\ bpc = "ready"
    /\ call.op = "batch"
    /\ idx < Len(call.orders)
    /\ ~RaisesKeyError(CurrentOrder)
    /\ StartSearch(build_qubo_model(CurrentOrder, call.market_data,
                                    call.risk_metrics))
    /\ validated' = Append(validated, CurrentOrder)
    /\ UNCHANGED <<validator, call, idx, results, rets, error, seed>>

\* Lines 119-120 and 102: build_qubo_model reads a key the order lacks; the
\* KeyError is caught neither by validate_order nor by batch_validate_orders.
ValidateOrderKeyError ==
    /\ bpc = "ready"
    /\ call.op = "batch"
    /\ idx < Len(call.orders)
    /\ RaisesKeyError(CurrentOrder)
    /\ bpc' = "raised"
    /\ error' = "KeyError"
    /\ UNCHANGED <<validator, validated, call, idx, results, rets, qubo, best_energy,
                   best_state, runVars, seed>>

\* Lines 53, 105-114 and 120: the search returns, validate_order compares the
\* energy with the threshold and its result is appended.
ValidateOrderReturn ==
    /\ bpc = "searching"
    /\ call.op = "batch"
    /\ AllRunsEnded
    /\ ~SomeRunRaised
    /\ rets' = Append(rets, SearchResult)
    /\ results' = AppendResult(results,
                      IsApproved(SearchResult.energy, validator.risk_threshold))
    /\ idx' = idx + 1
    /\ bpc' = "ready"
    /\ UNCHANGED <<validator, validated, call, error, qubo, best_energy, best_state,
                   runVars, seed>>

\* Line 121: return results
BatchReturn ==
    /\ bpc = "ready"
    /\ call.op = "batch"
    /\ idx = Len(call.orders)
    /\ bpc' = "returned"
    /\ UNCHANGED <<validator, validated, call, idx, results, rets, error, qubo,
                   best_energy, best_state, runVars, seed>>

\* A direct call of parallel_simulated_annealing starts.
DirectSearchStart ==
    /\ bpc = "ready"
    /\ call.op = "search"
    /\ idx < MaxCalls
    /\ StartSearch(call.qubo)
    /\ UNCHANGED <<validator, validated, call, idx, results, rets, error, seed>>

\* Line 53, direct call: the pair is returned.  The caller keeps the draws of
\* its first call to repeat the search under them.
DirectSearchReturn ==
    /\ bpc = "searching"
    /\ call.op = "search"
    /\ AllRunsEnded
    /\ ~SomeRunRaised
    /\ rets' = Append(rets, SearchResult)
    /\ seed' = IF idx = 0 THEN draws ELSE seed
    /\ idx' = idx + 1
    /\ bpc' = IF idx + 1 = MaxCalls THEN "returned" ELSE "ready"
    /\ UNCHANGED <<validator, validated, call, results, error, qubo, best_energy,
                   best_state, runVars>>

\* A run raised ZeroDivisionError: it leaves the search and its callers.
SearchRaises ==
    /\ bpc = "searching"
    /\ AllRunsEnded
    /\ SomeRunRaised
    /\ bpc' = "raised"
    /\ error' = "ZeroDivisionError"
    /\ UNCHANGED <<validator, validated, call, idx, results, rets, qubo, best_energy,
                   best_state, runVars, seed>>

Next ==
    \/ ValidateOrderStart
    \/ ValidateOrderKeyError
    \/ ValidateOrderReturn
    \/ BatchReturn
    \/ DirectSearchStart
    \/ DirectSearchReturn
    \/ SearchRaises
    \/ \E r \in RunIds : RunInit(r)
    \/ \E r \in RunIds : RunIterate(r)
    \/ \E r \in RunIds : RunCompare(r)
    \/ \E r \in RunIds : RunWriteEnergy(r)
    \/ \E r \in RunIds : RunWriteState(r)

Spec == Init /\ [][Next]_vars

----------------------------------------------------------------------------
\* Properties.

\* The search is configured with cooling_rate outside (0,1), num_iterations
\* below 0 or fewer than one run.
InvalidConfiguration ==
    \/ cooling_rate[1] <= 0
    \/ cooling_rate[1] >= cooling_rate[2]
    \/ num_iterations < 0
    \/ num_threads < 1

\* The configuration is one the specification accepts, with a positive
\* initial temperature.
ValidConfiguration == ~InvalidConfiguration /\ temp[1] > 0

\* A search with a valid configuration is about to return: every run has
\* ended and none has raised.
AtReturn ==
    bpc = "searching" /\ AllRunsEnded /\ ~SomeRunRaised /\ ValidConfiguration

\* The run has passed the comparison of line 49 and has not finished the
\* writes of lines 50-51.
InReduction(r) == rpc[r] \in {"write_energy", "write_state"}

AllLocalBestsFinite == \A r \in RunIds : IsFinite(local_best_energy[r])

\* The runs whose local_best_energy no other run's is below.
MinimalRuns ==
    {r \in RunIds :
        \A o \in RunIds : ~FLt(local_best_energy[o], local_best_energy[r])}

\* C1: the runs of a validly configured search share no mutable state in the
\* reduction: no two runs are at the same time between their read of the shared best_energy (line 49) and
\* the end of their writes to best_energy and best_state (lines 50-51).
C1_NoSharedReduction ==
    ValidConfiguration =>
        \A r1 \in RunIds : \A r2 \in RunIds :
            r1 # r2 => ~(InReduction(r1) /\ InReduction(r2))

\* C2: the energy the search returns is the minimum of the runs'
\* local_best_energy, whatever the interleaving of the runs.
C2_ReturnsMinimum ==
    (AtReturn /\ AllLocalBestsFinite) =>
        /\ \A r \in RunIds : ~FLt(local_best_energy[r], best_energy)
        /\ \E r \in RunIds : best_energy = local_best_energy[r]

\* C3: when several runs tie on the minimum local_best_energy, the state the
\* search returns is the local_best_state of the lowest-indexed of them.
C3_TieBreakLowestIndex ==
    (AtReturn /\ AllLocalBestsFinite /\ Cardinality(MinimalRuns) > 1) =>
        LET lowest == CHOOSE r \in MinimalRuns : \A o \in MinimalRuns : r <= o
        IN  best_state = local_best_state[lowest]

\* C4: the searches a direct caller repeats with the same arguments and the
\* same random draws in every run all return the same (best_state,
\* best_energy) pair.
C4_SeededDeterminism ==
    (call.op = "search" /\ ValidConfiguration) =>
        \A i \in 1..Len(rets) : \A j \in 1..Len(rets) : rets[i] = rets[j]

\* C5: an order is approved if and only if the energy its search returned is
\* strictly below risk_threshold; an energy equal to risk_threshold is
\* rejected.
C5_ApprovedIffBelowThreshold ==
    \A i \in 1..Len(results) :
        LET energy == rets[i].energy
            threshold == validator.risk_threshold
        IN  /\ results[i] \in BOOLEAN
            /\ results[i] <=>
                  /\ energy.k # "nan"
                  /\ energy # threshold
                  /\ \/ energy = NInf
                     \/ IsFinite(energy) /\ energy.v < threshold.v
            /\ energy = threshold => results[i] = FALSE

\* C5 witness: an order whose search returned exactly risk_threshold has been
\* rejected.
C5_Witness ==
    \E i \in 1..Len(results) :
        /\ rets[i].energy = validator.risk_threshold
        /\ results[i] = FALSE

\* C6: the sequence batch_validate_orders returns has the length of its input
\* and its i-th entry is the result of validate_order on the i-th order.
C6_BatchOrderAndLength ==
    (call.op = "batch" /\ bpc = "returned") =>
        /\ Len(results) = Len(call.orders)
        /\ validated = call.orders
        /\ \A i \in 1..Len(results) :
              /\ rets[i].qubo = build_qubo_model(call.orders[i],
                                    call.market_data, call.risk_metrics)
              /\ results[i] = FLt(rets[i].energy, validator.risk_threshold)

\* C6 witness: a batch of two orders has returned two different decisions.
C6_Witness ==
    /\ call.op = "batch"
    /\ bpc = "returned"
    /\ Len(call.orders) = 2
    /\ Len(results) = 2
    /\ results[1] # results[2]

\* C7: a failure while validating one order does not abort the batch: the
\* batch of a validly configured validator ends by returning one entry per
\* input order.
C7_BatchIsolatesFailures ==
    (call.op = "batch" /\ ValidConfiguration /\ bpc \in {"returned", "raised"}) =>
        /\ bpc = "returned"
        /\ Len(results) = Len(call.orders)

\* C8: a search with an invalid configuration ends in a configuration error
\* before any run has started: no search is started, no run initialises a
\* state and nothing is returned.
C8_InvalidConfigurationRejected ==
    InvalidConfiguration =>
        /\ bpc # "searching"
        /\ \A r \in RunIds : rpc[r] = "idle"
        /\ rets = <<>>

NonFiniteOrder(order) == \E key \in DOMAIN order : ~IsFinite(order[key])

\* C9: validate_order on an order or risk metrics with a non-finite value
\* raises an invalid-input error before build_qubo_model builds the matrix
\* and before any run starts: a validly configured validator never builds a
\* matrix from such values.
C9_NonFiniteRejected ==
    ValidConfiguration =>
        \A i \in 1..Len(validated) :
            /\ ~NonFiniteOrder(validated[i])
            /\ ~NonFiniteOrder(call.risk_metrics)

----------------------------------------------------------------------------
\* _calculate_energy evaluated on its own.

\* The entries of the matrices it is evaluated on.
EntryValues == {F(-1), F(0), F(2)}

\* _calculate_energy(state, qubo), called directly.
EnergyCalls ==
    UNION {[op : {"energy"}, state : BinaryVectors(n),
            qubo : [0..(n - 1) -> [0..(n - 1) -> EntryValues]]] : n \in 1..MaxVars}

InitEnergy ==
    /\ validator = [risk_threshold |-> F(DefaultRiskThreshold), num_threads |-> 1]
    /\ call \in EnergyCalls
    /\ bpc = "ready"
    /\ idx = 0
    /\ results = <<>>
    /\ validated = <<>>
    /\ rets = <<>>
    /\ error = "none"
    /\ qubo = <<>>
    /\ best_energy = PInf
    /\ best_state = <<>>
    /\ rpc = [r \in {0} |-> "idle"]
    /\ current_state = [r \in {0} |-> <<>>]
    /\ current_energy = [r \in {0} |-> F(0)]
    /\ local_best_state = [r \in {0} |-> <<>>]
    /\ local_best_energy = [r \in {0} |-> F(0)]
    /\ local_temp = [r \in {0} |-> <<0, 1>>]
    /\ iter = [r \in {0} |-> 0]
    /\ draws = [r \in {0} |-> NoDraws]
    /\ seed = [r \in {0} |-> NoDraws]

\* Lines 57-65: the call returns the energy.
CalculateEnergy ==
    /\ bpc = "ready"
    /\ call.op = "energy"
    /\ rets' = <<[state |-> call.state,
                  energy |-> _calculate_energy(call.state, call.qubo),
                  qubo |-> call.qubo]>>
    /\ bpc' = "returned"
    /\ UNCHANGED <<validator, validated, call, idx, results, error, qubo,
                   best_energy, best_state, runVars, seed>>

NextEnergy == CalculateEnergy

SpecEnergy == InitEnergy /\ [][NextEnergy]_vars

RECURSIVE SumOver(_, _)
\* The sum of f[x] over the x of S.
SumOver(S, f) ==
    IF S = {} THEN 0
    ELSE LET x == CHOOSE y \in S : TRUE
         IN  f[x] + SumOver(S \ {x}, f)

\* C10: _calculate_energy returns the sum of Q[i,i]*state[i] over all i plus
\* the sum of Q[i,j]*state[i]*state[j] over all i<j; changing a lower-triangle
\* entry (i>j) does not change the result, and the result is 0 for the
\* all-zero state.
C10_EnergyFormula ==
    (call.op = "energy" /\ bpc = "returned") =>
        LET state == call.state
            Q == call.qubo
            ix == DOMAIN state
            pairs == {p \in ix \X ix : p[1] < p[2]}
            linear == SumOver(ix, [i \in ix |-> Q[i][i].v * state[i]])
            quadratic ==
                SumOver(pairs,
                    [p \in pairs |-> Q[p[1]][p[2]].v * state[p[1]] * state[p[2]]])
        IN  /\ rets[1].energy = F(linear + quadratic)
            /\ \A i \in ix : \A j \in ix : \A x \in EntryValues :
                  i > j =>
                     _calculate_energy(state, SetEntry(Q, i, j, x)) = rets[1].energy
            /\ state = Zeros(Length(state)) => rets[1].energy = F(0)

\* C10 witness: the energy has been computed for a state with two variables
\* set, on a matrix whose entries for that pair are not zero on either side
\* of the diagonal.
C10_Witness ==
    /\ call.op = "energy"
    /\ bpc = "returned"
    /\ \E i \in DOMAIN call.state : \E j \in DOMAIN call.state :
          /\ i < j
          /\ call.state[i] = 1
          /\ call.state[j] = 1
          /\ call.qubo[i][j] # F(0)
          /\ call.qubo[j][i] # F(0)
          /\ call.qubo[j][i] # call.qubo[i][j]

----------------------------------------------------------------------------
\* build_qubo_model evaluated on its own.

\* The orders and risk metrics it is evaluated on: finite values, and one
\* order that lacks a key.
BuildOrders ==
    [size : {F(1), F(10)}, expected_profit : {F(-1), F(0), F(2)}]
        \cup {OrderNoProfit}

BuildRiskMetrics ==
    [volatility : {F(1), F(2)}, liquidity : {F(0), F(2)},
     correlation : {F(-3), F(3)}, margin_requirement : {F(0), F(5), F(10)}]

BuildMarketData == {"md", "md2"}

\* build_qubo_model(order, market_data, risk_metrics), called directly.
BuildCalls ==
    [op : {"build"}, order : BuildOrders, market_data : BuildMarketData,
     risk_metrics : BuildRiskMetrics]

InitBuild ==
    /\ validator = [risk_threshold |-> F(DefaultRiskThreshold), num_threads |-> 1]
    /\ call \in BuildCalls
    /\ bpc = "ready"
    /\ idx = 0
    /\ results = <<>>
    /\ validated = <<>>
    /\ rets = <<>>
    /\ error = "none"
    /\ qubo = <<>>
    /\ best_energy = PInf
    /\ best_state = <<>>
    /\ rpc = [r \in {0} |-> "idle"]
    /\ current_state = [r \in {0} |-> <<>>]
    /\ current_energy = [r \in {0} |-> F(0)]
    /\ local_best_state = [r \in {0} |-> <<>>]
    /\ local_best_energy = [r \in {0} |-> F(0)]
    /\ local_temp = [r \in {0} |-> <<0, 1>>]
    /\ iter = [r \in {0} |-> 0]
    /\ draws = [r \in {0} |-> NoDraws]
    /\ seed = [r \in {0} |-> NoDraws]

\* Lines 70-95: the call returns the matrix, or leaves with the KeyError of
\* a key the order lacks.
BuildQuboModel ==
    /\ bpc = "ready"
    /\ call.op = "build"
    /\ IF RaisesKeyError(call.order)
       THEN /\ bpc' = "raised"
            /\ error' = "KeyError"
            /\ UNCHANGED qubo
       ELSE /\ qubo' = build_qubo_model(call.order, call.market_data,
                                        call.risk_metrics)
            /\ bpc' = "returned"
            /\ UNCHANGED error
    /\ UNCHANGED <<validator, validated, call, idx, results, rets,
                   best_energy, best_state, runVars, seed>>

NextBuild == BuildQuboModel

SpecBuild == InitBuild /\ [][NextBuild]_vars

\* The cells of the matrix lines 85-93 assign.
AssignedCells == {<<0, 0>>, <<1, 1>>, <<2, 2>>, <<3, 3>>,
                  <<0, 1>>, <<0, 2>>, <<0, 3>>}

\* C11: build_qubo_model returns a 4x4 matrix with Q[0,0] =
\* -2.3*expected_profit, Q[1,1] = 1.8*size*volatility, Q[2,2] = 0.5*liquidity,
\* Q[3,3] = 1.2*(1 - margin_requirement), Q[0,1] = 0.5*volatility, Q[0,2] =
\* 0.3*liquidity, Q[0,3] = 0.2*correlation, and every other entry zero.
C11_MatrixEntries ==
    (call.op = "build" /\ bpc = "returned") =>
        LET order == call.order
            metrics == call.risk_metrics
        IN  /\ DOMAIN qubo = 0..3
            /\ \A i \in 0..3 : DOMAIN qubo[i] = 0..3
            /\ qubo[0][0] = F(-230 * order.expected_profit.v)
            /\ qubo[1][1] = F(18 * order.size.v * metrics.volatility.v)
            /\ qubo[2][2] = F(5 * metrics.liquidity.v)
            /\ qubo[3][3] = F(12 * (10 - metrics.margin_requirement.v))
            /\ qubo[0][1] = F(5 * metrics.volatility.v)
            /\ qubo[0][2] = F(3 * metrics.liquidity.v)
            /\ qubo[0][3] = F(2 * metrics.correlation.v)
            /\ \A i \in 0..3 : \A j \in 0..3 :
                  <<i, j>> \notin AssignedCells => qubo[i][j] = F(0)

\* C11 witness: the matrix of the order of size 10 and expected profit 2
\* under volatility 0.1, liquidity 0.2, correlation 0.3 and margin
\* requirement 0.5 has been built; its seven assigned entries are not zero.
C11_Witness ==
    /\ call.op = "build"
    /\ bpc = "returned"
    /\ call.order = [size |-> F(10), expected_profit |-> F(2)]
    /\ call.risk_metrics = [volatility |-> F(1), liquidity |-> F(2),
                            correlation |-> F(3), margin_requirement |-> F(5)]
    /\ \A c \in AssignedCells : qubo[c[1]][c[2]] # F(0)

----------------------------------------------------------------------------
\* validate_order called repeatedly under seeded draws.

\* The orders, one of which lacks a key.
ValidateOrders == {OrderGood, OrderInfProfit, OrderNoProfit}

\* validate_order(order, market_data, risk_metrics), called MaxCalls times by
\* a caller that seeds np.random the same way before each call; the calls
\* differ in market_data alone, market_data[i] being that of the i-th call:
\* every call is handed market data of its own.
ValidateCalls ==
    [op : {"validate"}, order : ValidateOrders,
     market_data : {[i \in 1..MaxCalls |-> i]},
     risk_metrics : {RiskNormal}]

\* The draws np.random is seeded to hand to a run: its initial state
\* (line 20) and, per iteration, the index of line 29 and the rand() of
\* line 36.
SeededDraws ==
    [init : {<<0, 0, 0, 0>>, <<1, 0, 0, 0>>},
     steps : [1..DefaultIterations ->
                 {[var_idx |-> 1, rand |-> "high"], [var_idx |-> 0, rand |-> "low"]}]]

\* <<0, 0, 0, 0>> as the 0-indexed vector the runs hold.
FromTuple(t) == [i \in 0..(Len(t) - 1) |-> t[i + 1]]

InitValidate ==
    /\ validator \in [risk_threshold : {F(BoundaryRiskThreshold)},
                      num_threads : {0, 1}]
    /\ call \in ValidateCalls
    /\ LET ids == 0..(NumThreadsOf(validator) - 1)
       IN  /\ rpc = [r \in ids |-> "idle"]
           /\ current_state = [r \in ids |-> <<>>]
           /\ current_energy = [r \in ids |-> F(0)]
           /\ local_best_state = [r \in ids |-> <<>>]
           /\ local_best_energy = [r \in ids |-> F(0)]
           /\ local_temp = [r \in ids |-> <<0, 1>>]
           /\ iter = [r \in ids |-> 0]
           /\ draws = [r \in ids |-> NoDraws]
           /\ \E sd \in [ids -> SeededDraws] :
                 seed = [r \in ids |->
                            [init |-> FromTuple(sd[r].init), steps |-> sd[r].steps]]
    /\ bpc = "ready"
    /\ idx = 0
    /\ results = <<>>
    /\ validated = <<>>
    /\ rets = <<>>
    /\ error = "none"
    /\ qubo = <<>>
    /\ best_energy = PInf
    /\ best_state = <<>>

\* Lines 102-105: validate_order builds the matrix of its order under the
\* market_data of this call and starts the search.
DirectValidateStart ==
    /\ bpc = "ready"
    /\ call.op = "validate"
    /\ idx < MaxCalls
    /\ ~RaisesKeyError(call.order)
    /\ StartSearch(build_qubo_model(call.order, call.market_data[idx + 1],
                                    call.risk_metrics))
    /\ validated' = Append(validated, call.order)
    /\ UNCHANGED <<validator, call, idx, results, rets, error, seed>>

\* Line 102: build_qubo_model reads a key the order lacks; validate_order
\* does not catch the KeyError.
DirectValidateKeyError ==
    /\ bpc = "ready"
    /\ call.op = "validate"
    /\ idx < MaxCalls
    /\ RaisesKeyError(call.order)
    /\ bpc' = "raised"
    /\ error' = "KeyError"
    /\ UNCHANGED <<validator, validated, call, idx, results, rets, qubo,
                   best_energy, best_state, runVars, seed>>

\* Lines 53 and 105-114: the search returns and validate_order returns the
\* comparison of its energy with the threshold.
DirectValidateReturn ==
    /\ bpc = "searching"
    /\ call.op = "validate"
    /\ AllRunsEnded
    /\ ~SomeRunRaised
    /\ rets' = Append(rets, SearchResult)
    /\ results' = AppendResult(results,
                      IsApproved(SearchResult.energy, validator.risk_threshold))
    /\ idx' = idx + 1
    /\ bpc' = IF idx + 1 = MaxCalls THEN "returned" ELSE "ready"
    /\ UNCHANGED <<validator, validated, call, error, qubo, best_energy,
                   best_state, runVars, seed>>

NextValidate ==
    \/ DirectValidateStart
    \/ DirectValidateKeyError
    \/ DirectValidateReturn
    \/ \E r \in RunIds : RunInit(r)
    \/ \E r \in RunIds : RunIterate(r)
    \/ \E r \in RunIds : RunCompare(r)
    \/ \E r \in RunIds : RunWriteEnergy(r)
    \/ \E r \in RunIds : RunWriteState(r)

\* The threads of the prange loop and the caller's thread are scheduled: a
\* step that stays possible is eventually taken.
SpecValidate == InitValidate /\ [][NextValidate]_vars /\ WF_vars(NextValidate)

\* C12: the matrix and the decision do not depend on market_data: the
\* validate_order calls of a caller that differ in market_data alone, each
\* under the same random draws in every run, build the same matrix and return
\* the same decision.
C12_MarketDataIndependence ==
    call.op = "validate" =>
        \A i \in 1..Len(results) : \A j \in 1..Len(results) :
            call.market_data[i] # call.market_data[j] =>
                /\ rets[i].qubo = rets[j].qubo
                /\ results[i] = results[j]

\* Run r has gone through all num_iterations iterations and through the
\* comparison and the writes of lines 49-51.
RunCompleted(r) == rpc[r] = "done" /\ iter[r] = num_iterations

\* C13: every search validate_order starts terminates and every sequence of
\* validate_order calls ends; validate_order produces its decision only in a
\* step taken when every one of the num_threads runs has completed all
\* num_iterations iterations, one decision per returned search.
C13_DecisionAfterAllRuns ==
    /\ [][results' # results =>
             /\ \A r \in RunIds : RunCompleted(r)
             /\ Len(results') = Len(results) + 1
             /\ Len(rets') = Len(results')]_vars
    /\ (bpc = "searching") ~> (bpc # "searching")
    /\ <>(bpc \in {"returned", "raised"})

\* C13 witness: a validator with two runs has returned a decision for which
\* both runs went through every iteration.
C13_Witness ==
    /\ call.op = "validate"
    /\ num_threads = 2
    /\ num_iterations > 0
    /\ results # <<>>
    /\ bpc = "ready"
    /\ \A r \in RunIds : RunCompleted(r)

----------------------------------------------------------------------------
\* Properties of the iterations of a run.

\* Run r has initialised its state and has not raised.
Running(r) == rpc[r] \in {"loop", "write_energy", "write_state", "done"}

\* The step is an iteration of the inner loop of run r.
Iterated(r) == rpc[r] = "loop" /\ iter'[r] = iter[r] + 1

RECURSIVE Pow(_, _)
Pow(b, n) == IF n = 0 THEN 1 ELSE b * Pow(b, n - 1)

RECURSIVE Gcd(_, _)
Gcd(a, b) == IF b = 0 THEN a ELSE Gcd(b, a % b)

\* Fractions with non-negative numerators and positive denominators: a in
\* lowest terms, a = b, a < b and the product a*b.
Reduced(a) == LET g == Gcd(a[1], a[2]) IN <<a[1] \div g, a[2] \div g>>
FracEq(a, b) == Reduced(a) = Reduced(b)
FracLt(a, b) == Reduced(a)[1] * Reduced(b)[2] < Reduced(b)[1] * Reduced(a)[2]
FracTimes(a, b) == <<a[1] * b[1], a[2] * b[2]>>

\* C14: in every run the temperature is multiplied by cooling_rate exactly
\* once per iteration, whether or not the move was accepted: across an
\* iteration local_temp becomes cooling_rate * local_temp, after k iterations
\* it is temp * cooling_rate^k, a step that is no iteration of the run leaves
\* it alone, and with 0 < cooling_rate < 1 and temp > 0 every iteration
\* strictly lowers it.
C14_CoolingOncePerIteration ==
    [][\A r \in RunIds :
          /\ Iterated(r) =>
                /\ FracEq(local_temp'[r], FracTimes(cooling_rate, local_temp[r]))
                /\ ValidConfiguration => FracLt(local_temp'[r], local_temp[r])
          /\ (Running(r) /\ rpc[r] # "done" /\ ~Iterated(r)) =>
                local_temp'[r] = local_temp[r]
          /\ Running(r)' =>
                FracEq(local_temp'[r],
                       <<temp[1] * Pow(cooling_rate[1], iter'[r]),
                         temp[2] * Pow(cooling_rate[2], iter'[r])>>)]_vars

\* C14 witness: a run of a validly configured direct search has rejected the
\* move of its first iteration (it still holds its initial state) and its
\* temperature is 99, below the initial 100.
C14_Witness ==
    /\ call.op = "search"
    /\ ValidConfiguration
    /\ \E r \in RunIds :
          /\ rpc[r] = "loop"
          /\ iter[r] = 1
          /\ current_state[r] = draws[r].init
          /\ FracEq(local_temp[r], <<99, 1>>)
          /\ FracLt(local_temp[r], temp)

\* The step is run r entering line 36 with the move np.random proposed in a
\* direct search: the index it drew is the last of the run's draws.
Proposes(r) == call.op = "search" /\ rpc[r] = "loop" /\ draws'[r] # draws[r]

ProposedState(r) ==
    Flip(current_state[r], draws'[r].steps[Len(draws'[r].steps)].var_idx)

\* C15: in a search whose configuration is not invalid, a proposed move that
\* strictly lowers the energy is accepted, and once the temperature is 0 a
\* proposed move of equal or higher energy is rejected: the run keeps its
\* state, no division by zero leaves the run and no NaN energy results.
C15_AcceptanceRule ==
    [][\A r \in RunIds :
          (Proposes(r) /\ ~InvalidConfiguration) =>
              LET new_state == ProposedState(r)
                  lowers == FLt(_calculate_energy(new_state, qubo),
                                current_energy[r])
              IN  /\ rpc'[r] # "raised"
                  /\ current_energy'[r].k # "nan"
                  /\ lowers => current_state'[r] = new_state
                  /\ (IsZero(local_temp[r]) /\ ~lowers) =>
                         current_state'[r] = current_state[r]]_vars

\* The indices at which two states differ.
Differing(a, b) == {i \in DOMAIN a : a[i] # b[i]}

IsBinary(state) ==
    DOMAIN state = DOMAIN qubo /\ \A i \in DOMAIN state : state[i] \in {0, 1}

\* C16: the proposed new_state differs from current_state in exactly one
\* index; across an iteration current_state stays the same or changes in
\* exactly one component (to the proposed state); every component of every
\* state a run holds is 0 or 1.
C16_SingleBitFlip ==
    [][\A r \in RunIds :
          /\ Proposes(r) =>
                /\ Cardinality(Differing(ProposedState(r), current_state[r])) = 1
                /\ IsBinary(ProposedState(r))
                /\ current_state'[r] \in {current_state[r], ProposedState(r)}
          /\ Iterated(r) =>
                Cardinality(Differing(current_state'[r], current_state[r])) <= 1
          /\ Running(r)' =>
                IsBinary(current_state'[r]) /\ IsBinary(local_best_state'[r])]_vars

\* C16 witness: a run of a direct search has accepted the move of its first
\* iteration from a state whose flipped component was 1: its state differs
\* from its initial state in that one component, now 0.
C16_Witness ==
    /\ call.op = "search"
    /\ \E r \in RunIds :
          /\ Running(r)
          /\ iter[r] = 1
          /\ Differing(current_state[r], draws[r].init) = {draws[r].steps[1].var_idx}
          /\ current_state[r][draws[r].steps[1].var_idx] = 0

\* Every entry of the matrix is a finite number.
FiniteMatrix(q) == \A i \in DOMAIN q : \A j \in DOMAIN q[i] : IsFinite(q[i][j])

Min(a, b) == IF a <= b THEN a ELSE b

\* C17: on a matrix of finite entries, local_best_energy is the minimum
\* energy over the states the run has held so far: it is the energy of the
\* initial state when the run starts and, after every iteration, the smaller
\* of its previous value and the energy of the state the run now holds; it
\* never increases, is at most current_energy, and local_best_state is a
\* state whose energy is local_best_energy.
C17_LocalBestIsRunningMinimum ==
    [][\A r \in RunIds :
          FiniteMatrix(qubo') =>
             /\ (rpc[r] = "start" /\ rpc'[r] = "loop") =>
                    /\ local_best_energy'[r] = current_energy'[r]
                    /\ local_best_state'[r] = current_state'[r]
             /\ Iterated(r) =>
                    /\ local_best_energy'[r].v =
                           Min(local_best_energy[r].v, current_energy'[r].v)
                    /\ local_best_energy'[r].v <= local_best_energy[r].v
             /\ (Running(r) /\ rpc[r] # "done" /\ ~Iterated(r)) =>
                    /\ local_best_energy'[r] = local_best_energy[r]
                    /\ local_best_state'[r] = local_best_state[r]
             /\ Running(r)' =>
                    /\ IsFinite(local_best_energy'[r])
                    /\ local_best_energy'[r].v <= current_energy'[r].v
             /\ (rpc[r] = "start" \/ Iterated(r)) =>
                    local_best_energy'[r] =
                        _calculate_energy(local_best_state'[r], qubo')]_vars

\* C17 witness: a run has accepted a move to a state of higher energy and
\* keeps the lower energy, and the state, it started from as its best.
C17_Witness ==
    /\ FiniteMatrix(qubo)
    /\ \E r \in RunIds :
          /\ Running(r)
          /\ iter[r] >= 1
          /\ local_best_energy[r].v < current_energy[r].v
          /\ local_best_state[r] # current_state[r]
          /\ local_best_energy[r] = _calculate_energy(local_best_state[r], qubo)

\* C18: the pair a validly configured search returns is consistent: when at
\* least one run executed on a matrix of finite entries, the returned
\* best_energy is the energy _calculate_energy gives the returned best_state.
C18_ReturnedPairConsistent ==
    (AtReturn /\ FiniteMatrix(qubo)) =>
        best_energy = _calculate_energy(best_state, qubo)

\* The energy run r caches is the energy of the state it holds.
C19_Cached(r) == current_energy[r] = _calculate_energy(current_state[r], qubo)

\* C19: at the start and at the end of every iteration of every run the
\* cached current_energy is _calculate_energy(current_state, qubo): it is so
\* when the run enters its loop and after each iteration, an accepted move
\* updates both together, a rejected move changes neither, and no other step
\* changes either.
C19_CachedEnergyConsistent ==
    [][\A r \in RunIds :
          /\ (rpc[r] = "start" /\ rpc'[r] = "loop") => C19_Cached(r)'
          /\ Iterated(r) =>
                /\ C19_Cached(r)'
                /\ (current_state'[r] = current_state[r])
                       => (current_energy'[r] = current_energy[r])
          /\ Proposes(r) =>
                \/ /\ current_state'[r] = ProposedState(r)
                   /\ current_energy'[r] =
                          _calculate_energy(ProposedState(r), qubo)
                \/ /\ current_state'[r] = current_state[r]
                   /\ current_energy'[r] = current_energy[r]
          /\ (Running(r) /\ rpc[r] # "done" /\ ~Iterated(r)) =>
                /\ current_state'[r] = current_state[r]
                /\ current_energy'[r] = current_energy[r]]_vars

\* C19 witness: a run of a direct search has accepted a move to a state of
\* another energy and caches the energy of the state it now holds.
C19_Witness ==
    /\ call.op = "search"
    /\ \E r \in RunIds :
          /\ Running(r)
          /\ iter[r] = 1
          /\ current_state[r] # draws[r].init
          /\ current_energy[r] # _calculate_energy(draws[r].init, qubo)
          /\ C19_Cached(r)

====
